---- MODULE Spec2Model ----
(***************************************************************************)
(* The download-session orchestrators of olympus-terminal/tools:           *)
(*   yt_stealth_downloader.py   StealthChannelDownloader   ("stealth")     *)
(*   yt_channel_advanced.py     AdvancedChannelDownloader  ("advanced")    *)
(*   yt_channel_downloader.py   ChannelDownloader          ("basic")       *)
(* Each program keeps a JSON progress file (disk) and an in-memory copy    *)
(* (progress_data) and walks the channel's video list one item at a time.  *)
(* One behaviour of the model is the life of one progress file under one   *)
(* of the three programs: a sequence of runs (processes), each blocking   *)
(* in a fetch (ydl.download), in a sleep or in the countdown, where the    *)
(* operator may interrupt it (Ctrl+C), drop the .stop file, or the         *)
(* calendar date may change.                                               *)
(***************************************************************************)
EXTENDS Integers, Sequences, FiniteSets, TLC

\* ------------------------------------------------------------------ bounds
NumItems == 3            \* videos the channel lists
MaxRuns == 2             \* processes started against one progress file
MaxDate == 2             \* calendar dates the model covers
MaxInitRemaining == 2    \* quota left on date 1 when the model starts
MaxLimit == 2            \* the --limit the caller supplies, when it supplies one
MaxFaults == 3           \* fetches that fail over the life of one progress file

Items == 1..NumItems
Dates == 1..MaxDate

\* The ordered list the catalog (yt-dlp extract_info) returns for the channel.
Catalog == [k \in 1..NumItems |-> k]

\* -------------------------------------------------------------- utilities
Range(s) == {s[k] : k \in DOMAIN s}

EmptyMap == [x \in {} |-> 0]

\* d[k] = v on a dict
MapPut(d, k, v) == [x \in DOMAIN d \cup {k} |-> IF x = k THEN v ELSE d[x]]

\* del d[k]
MapDel(d, k) == [x \in DOMAIN d \ {k} |-> d[x]]

\* s[:n] of Python for a list s and an integer n (a negative n counts from the end)
Slice(s, n) ==
    LET m == IF n >= 0 THEN n ELSE Len(s) + n
        e == IF m < 0 THEN 0 ELSE IF m > Len(s) THEN Len(s) ELSE m
    IN  [k \in 1..e |-> s[k]]

\* needle in haystack, on token sequences (the code tests substrings of the
\* lower-cased message; a message is modelled as its sequence of words)
Contains(hay, needle) ==
    \E off \in 0..(Len(hay) - Len(needle)) :
        \A k \in 1..Len(needle) : hay[off + k] = needle[k]

\* every order random.shuffle can leave the list in
Shuffles(s) ==
    {p \in [1..Len(s) -> Range(s)] : Range(p) = Range(s)}

\* ---------------------------------------------------------- fetch errors
\* What ydl.download raises: the exception class and str(e).lower() as words.
ErrUnavailable == [cls |-> "DownloadError", msg |-> <<"video", "unavailable">>]
ErrPrivateSignIn == [cls |-> "DownloadError",
                     msg |-> <<"private", "video", "sign", "in">>]
ErrRemoved == [cls |-> "DownloadError",
               msg |-> <<"this", "video", "has", "been", "removed">>]
ErrSignIn == [cls |-> "DownloadError", msg |-> <<"sign", "in", "to", "confirm">>]
ErrHttp == [cls |-> "DownloadError", msg |-> <<"http", "error", "429">>]
ErrOther == [cls |-> "Exception", msg |-> <<"connection", "reset">>]

Errors == {ErrUnavailable, ErrPrivateSignIn, ErrRemoved, ErrSignIn, ErrHttp, ErrOther}

\* ------------------------------------------------------------------- state
VARIABLES
    cfg,             \* the command line: prog, stealth_mode, max_retries, quality
    disk,            \* the progress file (.stealth_progress.json and its siblings):
                     \* the last complete document written under its name
    file,            \* what is under that name now: "absent", "complete" (disk),
                     \* or "partial" (cut short by a kill inside _save_progress)
    today,           \* datetime.now() as a calendar date
    stop_file,       \* output_dir/.stop exists
    pc,              \* where the process is: idle (none), loop, fetch, sleep, wait
    progress_data,   \* self.progress_data
    session_id,      \* self.session_id
    downloads_today, \* self.downloads_today
    videos,          \* the list download_channel iterates
    i,               \* the loop index of download_channel (1-based)
    attempt,         \* the index into quality_options (advanced, 1-based)
    stats,           \* self.stats; the locals downloaded/failed of the stealth loop
    exit_code,       \* what the last process passed to sys.exit (-1: none yet)
    runs,            \* processes started so far
    endKind,         \* history: how the last process ended
    start,           \* history: what the run found when it started
    fetchCount,      \* history: items ydl.download was invoked for in this run
    firstFetch,      \* history: the first of them (0: none)
    fresh,           \* history: the item being fetched had no failure record
    freshPerm,       \* history: such items whose fetch raised an unrecoverable error
    anyFailed,       \* history: a fetch failed in this run
    lastMarked,      \* history: the text of the last error raised held a marker
    faults,          \* history: fetches that failed so far
    delay,           \* what the delay scheduler was called with and returned last
    cookies          \* the CookieManager: cookie_files, usage_stats,
                     \* current_cookie_file, the clock, and what it returned

vars == <<cfg, disk, file, today, stop_file, pc, progress_data, session_id,
          downloads_today, videos, i, attempt, stats, exit_code, runs, endKind,
          start, fetchCount, firstFetch, fresh, freshPerm, anyFailed, lastMarked,
          faults, delay, cookies>>

\* no cookie file in the cookie directory (0 is None)
NoCookies == [cookie_files |-> <<>>, usage_stats |-> EmptyMap,
              current_cookie_file |-> 0, now |-> 0, calls |-> <<>>,
              increasing |-> TRUE]

\* all of them but delay and cookies
process_vars ==
    <<cfg, disk, file, today, stop_file, pc, progress_data, session_id,
      downloads_today, videos, i, attempt, stats, exit_code, runs, endKind,
      start, fetchCount, firstFetch, fresh, freshPerm, anyFailed, lastMarked,
      faults>>

\* no delay computed yet (seconds in tenths)
NoDelay == [prog |-> "none", count |-> 0, multiplier |-> 0, raw |-> 0,
            value |-> 0, min |-> 0, max |-> 0]

ZeroStats == [downloaded |-> 0, skipped |-> 0, failed |-> 0, total |-> 0]

\* --------------------------------------------------------- stealth: profile
StealthModes == {"low", "medium", "high", "paranoid"}

\* _get_stealth_params: the presets (None is the empty tuple)
get_stealth_params(mode) ==
    CASE mode = "low" ->
           [daily_limit |-> 50, night_hours |-> <<>>, work_hours |-> <<>>]
      [] mode = "medium" ->
           [daily_limit |-> 20, night_hours |-> <<23, 7>>, work_hours |-> <<>>]
      [] mode = "paranoid" ->
           [daily_limit |-> 5, night_hours |-> <<21, 9>>, work_hours |-> <<10, 16>>]
      [] OTHER ->
           [daily_limit |-> 10, night_hours |-> <<22, 8>>, work_hours |-> <<9, 17>>]

stealth_params == get_stealth_params(cfg.stealth_mode)

\* _check_time_restrictions: time_ok
\* _check_time_restrictions, lines 158-167: current_hour is inside night_hours
in_night_hours(params, current_hour) ==
    LET night == params.night_hours
    IN  IF night = <<>> THEN FALSE
        ELSE IF night[1] > night[2]
             THEN current_hour >= night[1] \/ current_hour < night[2]
             ELSE night[1] <= current_hour /\ current_hour < night[2]

\* _check_time_restrictions, lines 169-174: current_hour is outside work_hours
outside_work_hours(params, current_hour) ==
    LET work == params.work_hours
    IN  IF work = <<>> THEN FALSE
        ELSE ~(work[1] <= current_hour /\ current_hour < work[2])

\* _check_time_restrictions: time_ok
check_time_restrictions(params, current_hour) ==
    LET night == params.night_hours
        work == params.work_hours
        in_night ==
            IF night = <<>> THEN FALSE
            ELSE IF night[1] > night[2]
                 THEN current_hour >= night[1] \/ current_hour < night[2]
                 ELSE night[1] <= current_hour /\ current_hour < night[2]
        off_work ==
            IF work = <<>> THEN FALSE
            ELSE ~(work[1] <= current_hour /\ current_hour < work[2])
    IN  ~in_night /\ ~off_work

\* the mutation of C5: the counter is read back one short of what
\* _update_daily_downloads wrote
get_downloads_today_one_short(pd, date) ==
    IF pd.daily_downloads[date] > 0 THEN pd.daily_downloads[date] - 1 ELSE 0

\* _get_downloads_today: daily_downloads.get(today, 0)
get_downloads_today(pd, date) == pd.daily_downloads[date]

\* the mutation of C11: the limit is taken as reached one download early, so
\* that the loop's quota check can fire (and break) ahead of the stop check
check_daily_limit_one_early(dt, params) == ~(dt + 1 >= params.daily_limit)

\* _check_daily_limit: limit_ok
check_daily_limit(dt, params) == ~(dt >= params.daily_limit)

\* the words the stealth downloader takes for an unrecoverable failure
PermanentMarkers == {<<"unavailable">>, <<"private">>, <<"deleted">>, <<"removed">>}

\* is_permanent of _download_single_video
stealth_is_permanent(e) == \E m \in PermanentMarkers : Contains(e.msg, m)

\* the mutation of C28: the handler catches yt-dlp's own errors only
is_Exception_DownloadError_only(e) == e.cls = "DownloadError"

\* "except Exception as e": what the handlers around ydl.download catch
\* (DownloadError is a subclass of Exception)
is_Exception(e) == e.cls \in {"DownloadError", "Exception"}

\* the mutation of C1: the check for an earlier download is gone
already_downloaded_never(pd, video_id) == FALSE

\* "if video_id in self.progress_data['downloaded_videos']", the first check of
\* _download_single_video, _download_video_with_fallback and _download_video
already_downloaded(pd, video_id) == video_id \in pd.downloaded_videos

\* failed_info.get('attempts', 0)
Attempts(pd, id) ==
    IF id \in DOMAIN pd.failed_videos THEN pd.failed_videos[id].attempts ELSE 0

\* failed_info.get('permanent_failure')
PermanentFailure(pd, id) ==
    id \in DOMAIN pd.failed_videos /\ pd.failed_videos[id].permanent_failure

\* the attempts at which _download_single_video stops trying (the literal 3)
StealthMaxAttempts == 3

\* ------------------------------------------------------------ configuration
RunModes == {"medium", "paranoid"}
MaxRetriesChoices == {1, 3}
Qualities == {"192", "320"}

Configs ==
    {[prog |-> "stealth", stealth_mode |-> m, max_retries |-> StealthMaxAttempts,
      quality |-> "192"] : m \in RunModes}
    \cup {[prog |-> "advanced", stealth_mode |-> "none", max_retries |-> r,
           quality |-> q] : r \in MaxRetriesChoices, q \in Qualities}
    \cup {[prog |-> "basic", stealth_mode |-> "none", max_retries |-> r,
           quality |-> "192"] : r \in MaxRetriesChoices}

\* _load_progress on a missing file
EmptyStore ==
    [downloaded_videos |-> {}, failed_videos |-> EmptyMap, channels |-> 0,
     daily_downloads |-> [d \in Dates |-> 0], sessions |-> <<>>]

\* the mutation of C16: a document that does not parse is taken as no document
json_load_raises_never(f) == FALSE

\* json.load(f) of _load_progress raises JSONDecodeError: nothing catches it in
\* the constructor or in main, the process ends with a traceback (status 1)
json_load_raises(f) == f = "partial"

\* _load_progress: json.load of the file if it exists, else the empty store
load_progress == IF file = "complete" THEN disk ELSE EmptyStore

NoStart == [q |-> 0, eligible |-> <<>>, prev |-> "none", night |-> FALSE,
            off_work |-> FALSE]

\* The progress file as the first modelled run finds it. Under the stealth
\* downloader earlier runs on other channels have used the day's quota up to
\* r downloads below the limit (their records concern other ids and are left out).
Init ==
    /\ cfg \in Configs
    /\ \E r \in 1..MaxInitRemaining :
         disk = [EmptyStore EXCEPT !.daily_downloads[1] =
                   IF cfg.prog = "stealth"
                   THEN get_stealth_params(cfg.stealth_mode).daily_limit - r
                   ELSE 0]
    /\ file = IF cfg.prog = "stealth" THEN "complete" ELSE "absent"
    /\ today = 1
    /\ stop_file = FALSE
    /\ pc = "idle"
    /\ progress_data = EmptyStore
    /\ session_id = 0
    /\ downloads_today = 0
    /\ videos = <<>>
    /\ i = 0
    /\ attempt = 0
    /\ stats = ZeroStats
    /\ exit_code = -1
    /\ runs = 0
    /\ endKind = "none"
    /\ start = NoStart
    /\ fetchCount = 0
    /\ firstFetch = 0
    /\ fresh = FALSE
    /\ freshPerm = {}
    /\ anyFailed = FALSE
    /\ lastMarked = FALSE
    /\ faults = 0
    /\ delay = NoDelay
    /\ cookies = NoCookies

\* ------------------------------------------------------- steps of a process
\* the mutation of C17: the save is put off, the file keeps what it held
save_progress_put_off(pd) == disk

\* _save_progress: json.dump(self.progress_data) over the file
save_progress(pd) == pd

\* the locals of the running process
Locals ==
    [stats |-> stats, i |-> i, attempt |-> attempt,
     downloads_today |-> downloads_today, videos |-> videos]

\* the process goes on to nextpc holding pd (saved or not) and the locals loc
Proceed(pd, saved, loc, nextpc) ==
    /\ progress_data' = pd
    /\ disk' = IF saved THEN save_progress(pd) ELSE disk
    /\ file' = IF saved THEN "complete" ELSE file
    /\ stats' = loc.stats
    /\ i' = loc.i
    /\ attempt' = loc.attempt
    /\ downloads_today' = loc.downloads_today
    /\ videos' = loc.videos
    /\ pc' = nextpc
    /\ UNCHANGED <<exit_code, endKind, delay, cookies>>

\* sys.exit(code): the process and its memory are gone
Exit(pd, saved, code, kind) ==
    /\ disk' = IF saved THEN save_progress(pd) ELSE disk
    /\ file' = IF saved THEN "complete" ELSE file
    /\ progress_data' = EmptyStore
    /\ stats' = ZeroStats
    /\ i' = 0
    /\ attempt' = 0
    /\ downloads_today' = 0
    /\ videos' = <<>>
    /\ pc' = "idle"
    /\ exit_code' = code
    /\ endKind' = kind
    /\ UNCHANGED <<delay, cookies>>

\* the items of a listing the code would fetch, in order (the checks of lines 330-339)
EligibleIn(pd, listing, max_attempts) ==
    SelectSeq(listing, LAMBDA v : ~already_downloaded(pd, v)
                                  /\ Attempts(pd, v) < max_attempts)

\* a new process: its id and what it finds
\* (night, off_work: where the hour the process reads at its start lies)
StartRunAt(pd, listing, q, max_attempts, night, off_work) ==
    /\ runs' = runs + 1
    /\ session_id' = runs + 1
    /\ start' = [q |-> q, eligible |-> EligibleIn(pd, listing, max_attempts),
                 prev |-> endKind, night |-> night, off_work |-> off_work]
    /\ fetchCount' = 0
    /\ firstFetch' = 0
    /\ fresh' = FALSE
    /\ freshPerm' = {}
    /\ anyFailed' = FALSE
    /\ lastMarked' = FALSE
    /\ UNCHANGED faults

\* a new process of a program that reads no clock
StartRun(pd, listing, q, max_attempts) ==
    StartRunAt(pd, listing, q, max_attempts, FALSE, FALSE)

\* the history of the run stays as it is
SameHistory == UNCHANGED <<runs, session_id, start, fetchCount, firstFetch, fresh,
                           freshPerm, anyFailed, lastMarked, faults>>

\* ydl.download is invoked for video_id
BeginFetch(pd, video_id) ==
    /\ fetchCount' = fetchCount + 1
    /\ firstFetch' = IF fetchCount = 0 THEN video_id ELSE firstFetch
    /\ fresh' = (video_id \notin DOMAIN pd.failed_videos)
    /\ lastMarked' = FALSE
    /\ UNCHANGED <<runs, session_id, start, freshPerm, anyFailed, faults>>

\* ydl.download raised e for video_id
FailedFetch(video_id, e) ==
    /\ faults < MaxFaults
    /\ faults' = faults + 1
    /\ anyFailed' = TRUE
    /\ lastMarked' = stealth_is_permanent(e)
    /\ freshPerm' = freshPerm \cup
                      (IF fresh /\ stealth_is_permanent(e) THEN {video_id} ELSE {})
    /\ UNCHANGED <<runs, session_id, start, fetchCount, firstFetch, fresh>>

\* ---------------------------------------------------------------- stealth
\* what _get_video_list can return: [] on any error, else the entries,
\* shuffled in the modes high and paranoid
stealth_get_video_list ==
    {<<>>} \cup (IF cfg.stealth_mode \in {"high", "paranoid"}
                 THEN Shuffles(Catalog) ELSE {Catalog})

\* download_channel, lines 491-499: the caller's limit, then the day's quota
stealth_truncate(listing, limit, dt, params) ==
    LET v1 == IF limit # 0 THEN Slice(listing, limit) ELSE listing
        remaining_today == params.daily_limit - dt
    IN  IF Len(v1) > remaining_today THEN Slice(v1, remaining_today) ELSE v1

\* download_channel, lines 569-588, and main's sys.exit(0 if success else 1)
Stealth_finish(pd, st, kind) ==
    Exit([pd EXCEPT !.sessions = Append(@, [id |-> session_id,
                                            downloaded |-> st.downloaded,
                                            failed |-> st.failed])],
         TRUE, IF st.failed = 0 THEN 0 ELSE 1, kind)

\* download_channel, lines 554-567: the countdown, unless this was the last video
Stealth_after_item(pd, saved, loc) ==
    IF i < Len(videos)
    THEN Proceed(pd, saved, loc, "wait")
    ELSE Stealth_finish(pd, loc.stats, "completed")

\* main with a url: the constructor and download_channel up to the loop
Stealth_main ==
    /\ cfg.prog = "stealth"
    /\ pc = "idle"
    /\ runs < MaxRuns
    /\ \E current_hour \in 0..23, limit \in {0, MaxLimit}, listing \in stealth_get_video_list :
         LET pd == load_progress
             dt == get_downloads_today(pd, today)
             time_ok == check_time_restrictions(stealth_params, current_hour)
             limit_ok == check_daily_limit(dt, stealth_params)
         IN  /\ StartRunAt(pd, listing, stealth_params.daily_limit - dt,
                        StealthMaxAttempts,
                        in_night_hours(stealth_params, current_hour),
                        outside_work_hours(stealth_params, current_hour))
             /\ IF json_load_raises(file)
                THEN Exit(pd, FALSE, 1, "corrupt")
                ELSE IF ~time_ok /\ cfg.stealth_mode = "paranoid"
                THEN Exit(pd, FALSE, 1, "time")
                ELSE IF ~limit_ok
                THEN Exit(pd, FALSE, 1, "limit")
                ELSE IF listing = <<>>
                THEN Exit(pd, FALSE, 1, "novideos")
                ELSE IF stealth_truncate(listing, limit, dt, stealth_params) = <<>>
                THEN Exit([pd EXCEPT !.channels = runs + 1,
                                     !.sessions = Append(@, [id |-> runs + 1,
                                                             downloaded |-> 0,
                                                             failed |-> 0])],
                          TRUE, 0, "completed")
                ELSE Proceed([pd EXCEPT !.channels = runs + 1], TRUE,
                             [stats |-> ZeroStats, i |-> 1, attempt |-> 0,
                              downloads_today |-> dt,
                              videos |-> stealth_truncate(listing, limit, dt, stealth_params)],
                             "loop")
    /\ UNCHANGED <<cfg, today, stop_file>>

\* the top of one iteration of download_channel's loop and the checks of
\* _download_single_video before the fetch
Stealth_loop ==
    /\ cfg.prog = "stealth"
    /\ pc = "loop"
    /\ LET video_id == videos[i]
           pd == progress_data
           ok == [Locals EXCEPT !.stats.downloaded = @ + 1]
           ko == [Locals EXCEPT !.stats.failed = @ + 1]
       IN  IF ~check_daily_limit(downloads_today, stealth_params)
           THEN /\ Stealth_finish(pd, stats, "quota")
                /\ UNCHANGED stop_file /\ SameHistory
           ELSE IF stop_file
           THEN /\ stop_file' = FALSE
                /\ Stealth_finish(pd, stats, "stop")
                /\ SameHistory
           ELSE IF already_downloaded(pd, video_id)
           THEN /\ Stealth_after_item(pd, FALSE, ok)
                /\ UNCHANGED stop_file /\ SameHistory
           ELSE IF Attempts(pd, video_id) >= StealthMaxAttempts
           THEN /\ IF ~PermanentFailure(pd, video_id)
                   THEN Proceed(pd, FALSE, ko, "sleep")
                   ELSE Stealth_after_item(pd, FALSE, ko)
                /\ UNCHANGED stop_file /\ SameHistory
           ELSE /\ Proceed(pd, FALSE, Locals, "fetch")
                /\ BeginFetch(pd, video_id)
                /\ UNCHANGED stop_file
    /\ UNCHANGED <<cfg, today>>

\* _update_daily_downloads on the store
update_daily_downloads(pd, dt, date) ==
    [pd EXCEPT !.daily_downloads[date] = dt + 1]

\* ydl.download returned: lines 379-389, then the loop's bookkeeping
Stealth_fetch_ok ==
    /\ cfg.prog = "stealth"
    /\ pc = "fetch"
    /\ LET video_id == videos[i]
           pd1 == [progress_data EXCEPT !.downloaded_videos = @ \cup {video_id}]
           pd2 == update_daily_downloads(pd1, downloads_today, today)
       IN  Stealth_after_item(pd2, TRUE,
               [Locals EXCEPT !.stats.downloaded = @ + 1,
                              !.downloads_today = @ + 1])
    /\ SameHistory
    /\ UNCHANGED <<cfg, today, stop_file>>

\* lines 402-412: the failure record after one failed fetch
stealth_record_failure(pd, video_id, is_permanent) ==
    LET fv == pd.failed_videos
        rec == IF video_id \notin DOMAIN fv
               THEN [attempts |-> 0, permanent_failure |-> is_permanent]
               ELSE [fv[video_id] EXCEPT !.permanent_failure = is_permanent]
    IN  [pd EXCEPT !.failed_videos =
            MapPut(fv, video_id, [rec EXCEPT !.attempts = @ + 1])]

\* ydl.download raised an Exception: lines 391-415, then lines 545-552
Stealth_fetch_fail ==
    /\ cfg.prog = "stealth"
    /\ pc = "fetch"
    /\ \E e \in Errors :
         LET video_id == videos[i]
             pd == stealth_record_failure(progress_data, video_id, stealth_is_permanent(e))
             ko == [Locals EXCEPT !.stats.failed = @ + 1]
         IN  /\ IF ~is_Exception(e)
                THEN Exit(progress_data, FALSE, 1, "crash")
                ELSE IF ~PermanentFailure(pd, video_id)
                THEN Proceed(pd, TRUE, ko, "sleep")
                ELSE Stealth_after_item(pd, TRUE, ko)
             /\ FailedFetch(video_id, e)
    /\ UNCHANGED <<cfg, today, stop_file>>

\* time.sleep(random.uniform(60, 180)) after a failure returned
Stealth_sleep_done ==
    /\ cfg.prog = "stealth"
    /\ pc = "sleep"
    /\ Stealth_after_item(progress_data, FALSE, Locals)
    /\ SameHistory
    /\ UNCHANGED <<cfg, today, stop_file>>

\* _wait_with_countdown returned: the next iteration
Stealth_wait_done ==
    /\ cfg.prog = "stealth"
    /\ pc = "wait"
    /\ Proceed(progress_data, FALSE, [Locals EXCEPT !.i = @ + 1], "loop")
    /\ SameHistory
    /\ UNCHANGED <<cfg, today, stop_file>>

\* the mutation of C29: the handler of line 391 takes the interrupt of a fetch
\* for a failed download
Stealth_interrupt_caught ==
    /\ cfg.prog = "stealth"
    /\ pc \in {"fetch", "sleep", "wait"}
    /\ Exit(IF pc = "fetch"
            THEN stealth_record_failure(progress_data, videos[i], FALSE)
            ELSE progress_data,
            pc = "fetch", 130, "interrupt")
    /\ SameHistory
    /\ UNCHANGED <<cfg, today, stop_file>>

\* Ctrl+C while the process blocks: KeyboardInterrupt is no Exception, leaves
\* download_channel and reaches main's handler, lines 681-684
Stealth_interrupt ==
    /\ cfg.prog = "stealth"
    /\ pc \in {"fetch", "sleep", "wait"}
    /\ Exit(progress_data, FALSE, 130, "interrupt")
    /\ SameHistory
    /\ UNCHANGED <<cfg, today, stop_file>>

\* --------------------------------------------------------------- advanced
\* list(dict.fromkeys(...)): the first occurrence of each element, in order
Dedup(s) ==
    SelectSeq([k \in DOMAIN s |-> IF \E j \in 1..(k - 1) : s[j] = s[k] THEN "" ELSE s[k]],
              LAMBDA x : x # "")

\* quality_options of _download_video_with_fallback
quality_options == Dedup(<<cfg.quality, "192", "128", "96">>)

\* what _get_video_list_with_metadata can return, and the same for the basic
\* downloader's _get_video_list: [] on any error, else the entries
get_video_list == {<<>>, Catalog}

\* videos.reverse()
Reverse(s) == [k \in 1..Len(s) |-> s[Len(s) + 1 - k]]

\* _record_failure
advanced_record_failure(pd, video_id, permanent) ==
    LET fv == pd.failed_videos
        rec == IF video_id \notin DOMAIN fv
               THEN [attempts |-> 0, permanent_failure |-> permanent]
               ELSE fv[video_id]
    IN  [pd EXCEPT !.failed_videos =
            MapPut(fv, video_id, [attempts |-> rec.attempts + 1,
                                  permanent_failure |-> permanent])]

\* _log_session
log_session(pd, st) ==
    [pd EXCEPT !.sessions = Append(@, [id |-> session_id,
                                       downloaded |-> st.downloaded,
                                       failed |-> st.failed,
                                       skipped |-> st.skipped])]

\* download_channel, lines 442-446, and main's sys.exit(0 if success else 1);
\* or Ctrl+C arrives while _show_summary prints, after _log_session has
\* returned, and main's handler (lines 535-539) logs the session again
Advanced_finish(pd, st, kind) ==
    \E interrupted \in BOOLEAN :
        IF interrupted
        THEN Exit(log_session(log_session(pd, st), st), TRUE, 130, "interrupt")
        ELSE Exit(log_session(pd, st), TRUE, IF st.failed = 0 THEN 0 ELSE 1, kind)

\* download_channel, lines 437-440: the countdown, unless this was the last video
Advanced_after_item(pd, saved, loc) ==
    IF i < Len(videos)
    THEN Proceed(pd, saved, loc, "wait")
    ELSE Advanced_finish(pd, loc.stats, "completed")

\* main: the constructor and download_channel up to the loop
Advanced_main ==
    /\ cfg.prog = "advanced"
    /\ pc = "idle"
    /\ runs < MaxRuns
    /\ \E limit \in {0, MaxLimit}, reverse \in BOOLEAN, listing \in get_video_list :
         LET pd == load_progress
             v1 == IF reverse THEN Reverse(listing) ELSE listing
             v2 == IF limit # 0 THEN Slice(v1, limit) ELSE v1
         IN  /\ StartRun(pd, v1, 0, cfg.max_retries)
             /\ IF json_load_raises(file)
                THEN Exit(pd, FALSE, 1, "corrupt")
                ELSE IF listing = <<>>
                THEN Exit(pd, FALSE, 1, "novideos")
                ELSE Proceed([pd EXCEPT !.channels = runs + 1], TRUE,
                             [stats |-> [ZeroStats EXCEPT !.total = Len(v2)],
                              i |-> 1, attempt |-> 0, downloads_today |-> 0,
                              videos |-> v2],
                             "loop")
    /\ UNCHANGED <<cfg, today, stop_file>>

\* the top of one iteration of download_channel's loop and the checks of
\* _download_video_with_fallback before the first fetch
Advanced_loop ==
    /\ cfg.prog = "advanced"
    /\ pc = "loop"
    /\ LET video_id == videos[i]
           pd == progress_data
           skip == [Locals EXCEPT !.stats.skipped = @ + 1]
       IN  IF stop_file
           THEN /\ stop_file' = FALSE
                /\ Advanced_finish(pd, stats, "stop")
                /\ SameHistory
           ELSE IF already_downloaded(pd, video_id)
           THEN /\ Advanced_after_item(pd, FALSE, skip)
                /\ UNCHANGED stop_file /\ SameHistory
           ELSE IF Attempts(pd, video_id) >= cfg.max_retries
           THEN /\ Advanced_after_item(pd, FALSE,
                        IF ~PermanentFailure(pd, video_id) THEN skip ELSE Locals)
                /\ UNCHANGED stop_file /\ SameHistory
           ELSE /\ Proceed(pd, FALSE, [Locals EXCEPT !.attempt = 1], "fetch")
                /\ BeginFetch(pd, video_id)
                /\ UNCHANGED stop_file
    /\ UNCHANGED <<cfg, today>>

\* ydl.download returned: lines 259-279
Advanced_fetch_ok ==
    /\ cfg.prog = "advanced"
    /\ pc = "fetch"
    /\ LET video_id == videos[i]
           pd1 == [progress_data EXCEPT !.downloaded_videos = @ \cup {video_id}]
           pd2 == IF video_id \in DOMAIN pd1.failed_videos
                  THEN [pd1 EXCEPT !.failed_videos = MapDel(@, video_id)]
                  ELSE pd1
       IN  Advanced_after_item(pd2, TRUE,
               [Locals EXCEPT !.stats.downloaded = @ + 1, !.attempt = 0])
    /\ SameHistory
    /\ UNCHANGED <<cfg, today, stop_file>>

\* ydl.download raised: lines 281-309
Advanced_fetch_fail ==
    /\ cfg.prog = "advanced"
    /\ pc = "fetch"
    /\ \E e \in Errors :
         LET video_id == videos[i]
             pd == progress_data
             last == (attempt = Len(quality_options))
             download_error == (e.cls = "DownloadError")
             gone == download_error
                     /\ (Contains(e.msg, <<"video", "unavailable">>)
                         \/ Contains(e.msg, <<"private", "video">>))
             sign_in == download_error /\ ~gone /\ Contains(e.msg, <<"sign", "in">>)
             pd1 == IF sign_in THEN advanced_record_failure(pd, video_id, FALSE) ELSE pd
             st1 == IF sign_in /\ last THEN [stats EXCEPT !.failed = @ + 1] ELSE stats
         IN  /\ IF ~is_Exception(e)
                THEN Exit(pd, FALSE, 1, "crash")
                ELSE IF gone
                THEN Advanced_after_item(
                         advanced_record_failure(pd, video_id, TRUE), TRUE,
                         [Locals EXCEPT !.stats.skipped = @ + 1, !.attempt = 0])
                ELSE IF ~last
                THEN Proceed(pd1, sign_in,
                             [Locals EXCEPT !.stats = st1, !.attempt = @ + 1], "fetch")
                ELSE Advanced_after_item(
                         advanced_record_failure(pd1, video_id, FALSE), TRUE,
                         [Locals EXCEPT !.stats = [st1 EXCEPT !.failed = @ + 1],
                                        !.attempt = 0])
             /\ FailedFetch(video_id, e)
    /\ UNCHANGED <<cfg, today, stop_file>>

\* _show_delay_countdown returned: the next iteration
Advanced_wait_done ==
    /\ cfg.prog = "advanced"
    /\ pc = "wait"
    /\ Proceed(progress_data, FALSE, [Locals EXCEPT !.i = @ + 1], "loop")
    /\ SameHistory
    /\ UNCHANGED <<cfg, today, stop_file>>

\* Ctrl+C while the process blocks: main's handler, lines 535-539
Advanced_interrupt ==
    /\ cfg.prog = "advanced"
    /\ pc \in {"fetch", "wait"}
    /\ Exit(log_session(progress_data, stats), TRUE, 130, "interrupt")
    /\ SameHistory
    /\ UNCHANGED <<cfg, today, stop_file>>

\* ------------------------------------------------------------------ basic
\* the mutation of C33: the reset leaves no room for another attempt
retry_failed_no_room(pd, max_retries) ==
    [pd EXCEPT !.failed_videos =
        [v \in DOMAIN @ |->
            IF @[v].attempts >= max_retries
            THEN [@[v] EXCEPT !.attempts = max_retries]
            ELSE @[v]]]

\* retry_failed
retry_failed(pd, max_retries) ==
    [pd EXCEPT !.failed_videos =
        [v \in DOMAIN @ |->
            IF @[v].attempts >= max_retries
            THEN [@[v] EXCEPT !.attempts = max_retries - 1]
            ELSE @[v]]]

\* lines 185-196: the failure record after one failed fetch
basic_record_failure(pd, video_id) ==
    LET fv == pd.failed_videos
        rec == IF video_id \notin DOMAIN fv
               THEN [attempts |-> 0, permanent_failure |-> FALSE]
               ELSE fv[video_id]
    IN  [pd EXCEPT !.failed_videos =
            MapPut(fv, video_id, [rec EXCEPT !.attempts = @ + 1])]

\* download_channel, lines 278-287, and main's sys.exit(0 if success else 1)
Basic_finish(pd, saved, st, kind) ==
    Exit(pd, saved, IF st.failed = 0 THEN 0 ELSE 1, kind)

\* download_channel, lines 268-276: the delay, unless this was the last video
Basic_after_item(pd, saved, loc) ==
    IF i < Len(videos)
    THEN Proceed(pd, saved, loc, "wait")
    ELSE Basic_finish(pd, saved, loc.stats, "completed")

\* main with --retry-failed and no url
Basic_main_retry ==
    /\ cfg.prog = "basic"
    /\ pc = "idle"
    /\ runs < MaxRuns
    /\ LET pd == load_progress
       IN  /\ StartRun(pd, <<>>, 0, cfg.max_retries)
           /\ IF json_load_raises(file)
              THEN Exit(pd, FALSE, 1, "corrupt")
              ELSE Exit(retry_failed(pd, cfg.max_retries),
                        DOMAIN pd.failed_videos # {}, 0, "retry")
    /\ UNCHANGED <<cfg, today, stop_file>>

\* main with a url (after retry_failed, with --retry-failed): the constructor
\* and download_channel up to the loop
Basic_main ==
    /\ cfg.prog = "basic"
    /\ pc = "idle"
    /\ runs < MaxRuns
    /\ \E limit \in {0, MaxLimit}, retry \in BOOLEAN, channel_id \in BOOLEAN,
          listing \in get_video_list :
         LET pd0 == load_progress
             pd == IF retry THEN retry_failed(pd0, cfg.max_retries) ELSE pd0
             retried == retry /\ DOMAIN pd0.failed_videos # {}
             v == IF limit # 0 THEN Slice(listing, limit) ELSE listing
         IN  /\ StartRun(pd, listing, 0, cfg.max_retries)
             /\ IF json_load_raises(file)
                THEN Exit(pd, FALSE, 1, "corrupt")
                ELSE IF ~channel_id
                THEN Exit(pd, retried, 1, "nochannel")
                ELSE IF listing = <<>>
                THEN Exit(pd, retried, 1, "novideos")
                ELSE Proceed([pd EXCEPT !.channels = runs + 1], TRUE,
                             [stats |-> [ZeroStats EXCEPT !.total = Len(v)],
                              i |-> 1, attempt |-> 0, downloads_today |-> 0,
                              videos |-> v],
                             "loop")
    /\ UNCHANGED <<cfg, today, stop_file>>

\* one iteration of download_channel's loop up to the fetch: the checks of
\* _download_video
Basic_loop ==
    /\ cfg.prog = "basic"
    /\ pc = "loop"
    /\ LET video_id == videos[i]
           pd == progress_data
           skip == [Locals EXCEPT !.stats.skipped = @ + 1]
       IN  IF already_downloaded(pd, video_id)
           THEN /\ Basic_after_item(pd, FALSE, skip)
                /\ SameHistory
           ELSE IF Attempts(pd, video_id) >= cfg.max_retries
           THEN /\ Basic_after_item(pd, FALSE, skip)
                /\ SameHistory
           ELSE /\ Proceed(pd, FALSE, Locals, "fetch")
                /\ BeginFetch(pd, video_id)
    /\ UNCHANGED <<cfg, today, stop_file>>

\* ydl.download returned: lines 169-179
Basic_fetch_ok ==
    /\ cfg.prog = "basic"
    /\ pc = "fetch"
    /\ LET video_id == videos[i]
           pd == [progress_data EXCEPT !.downloaded_videos = @ \cup {video_id}]
       IN  Basic_after_item(pd, TRUE, [Locals EXCEPT !.stats.downloaded = @ + 1])
    /\ SameHistory
    /\ UNCHANGED <<cfg, today, stop_file>>

\* ydl.download raised an Exception: lines 181-199
Basic_fetch_fail ==
    /\ cfg.prog = "basic"
    /\ pc = "fetch"
    /\ \E e \in Errors :
         LET video_id == videos[i]
             pd == basic_record_failure(progress_data, video_id)
         IN  /\ Basic_after_item(pd, TRUE, [Locals EXCEPT !.stats.failed = @ + 1])
             /\ FailedFetch(video_id, e)
    /\ UNCHANGED <<cfg, today, stop_file>>

\* _random_delay (and the extra sleep after a failure) returned
Basic_wait_done ==
    /\ cfg.prog = "basic"
    /\ pc = "wait"
    /\ Proceed(progress_data, FALSE, [Locals EXCEPT !.i = @ + 1], "loop")
    /\ SameHistory
    /\ UNCHANGED <<cfg, today, stop_file>>

\* Ctrl+C while the process blocks: nothing catches KeyboardInterrupt and the
\* interpreter ends the process by SIGINT
Basic_interrupt ==
    /\ cfg.prog = "basic"
    /\ pc \in {"fetch", "wait"}
    /\ Exit(progress_data, FALSE, 130, "interrupt")
    /\ SameHistory
    /\ UNCHANGED <<cfg, today, stop_file>>

\* ------------------------------------------------------------ environment
\* midnight passes (only the stealth downloader reads the date)
Tick ==
    /\ cfg.prog = "stealth"
    /\ today < MaxDate
    /\ today' = today + 1
    /\ UNCHANGED <<cfg, disk, file, stop_file, pc, progress_data, session_id,
                   downloads_today, videos, i, attempt, stats, exit_code, runs,
                   endKind, start, fetchCount, firstFetch, fresh, freshPerm, anyFailed,
                   lastMarked, faults, delay, cookies>>

\* the operator creates output_dir/.stop
TouchStop ==
    /\ cfg.prog # "basic"
    /\ ~stop_file
    /\ stop_file' = TRUE
    /\ UNCHANGED <<cfg, disk, file, today, pc, progress_data, session_id,
                   downloads_today, videos, i, attempt, stats, exit_code, runs,
                   endKind, start, fetchCount, firstFetch, fresh, freshPerm, anyFailed,
                   lastMarked, faults, delay, cookies>>

\* The process is killed (SIGKILL, power loss) in the _save_progress that
\* follows the return of ydl.download. open(progress_file, 'w') truncates the
\* file and json.dump writes the new document into it in pieces: a kill before
\* the open leaves the file as it was, a kill between the open and the last
\* write leaves an empty or cut-off document under the file's name. (A kill
\* after the last write leaves what the regular step leaves.)
Kill_in_save ==
    /\ pc = "fetch"
    /\ \E truncated \in BOOLEAN :
         file' = IF truncated THEN "partial" ELSE file
    /\ progress_data' = EmptyStore
    /\ stats' = ZeroStats
    /\ i' = 0
    /\ attempt' = 0
    /\ downloads_today' = 0
    /\ videos' = <<>>
    /\ pc' = "idle"
    /\ exit_code' = 137
    /\ endKind' = "killed"
    /\ SameHistory
    /\ UNCHANGED <<cfg, disk, today, stop_file, delay, cookies>>

Next ==
    \/ Stealth_main
    \/ Stealth_loop
    \/ Stealth_fetch_ok
    \/ Stealth_fetch_fail
    \/ Stealth_sleep_done
    \/ Stealth_wait_done
    \/ Stealth_interrupt
    \/ Advanced_main
    \/ Advanced_loop
    \/ Advanced_fetch_ok
    \/ Advanced_fetch_fail
    \/ Advanced_wait_done
    \/ Advanced_interrupt
    \/ Basic_main_retry
    \/ Basic_main
    \/ Basic_loop
    \/ Basic_fetch_ok
    \/ Basic_fetch_fail
    \/ Basic_wait_done
    \/ Basic_interrupt
    \/ Kill_in_save
    \/ Tick
    \/ TouchStop

Spec == Init /\ [][Next]_vars

\* ------------------------------------------------------ the delay schedulers
\* _human_like_delay and _adaptive_delay are functions of the profile, of a
\* download count and of the draws of random. Seconds are kept exact as
\* integers: a draw of uniform(a, b) is one of a few integer points of [a, b],
\* a factor is in thousandths or tenths, and what the scheduler returns is in
\* tenths of a second.

\* the download counts the schedulers are called with
DownloadCounts == {0, 1, 5, 6, 10, 11, 20, 21, 30}

\* _get_stealth_params: min_wait, max_wait (seconds), variance (thousandths)
stealth_wait_params(mode) ==
    CASE mode = "low" -> [min_wait |-> 120, max_wait |-> 600, variance |-> 200]
      [] mode = "medium" -> [min_wait |-> 300, max_wait |-> 1200, variance |-> 300]
      [] mode = "paranoid" -> [min_wait |-> 1800, max_wait |-> 7200, variance |-> 700]
      [] OTHER -> [min_wait |-> 600, max_wait |-> 2400, variance |-> 500]

\* _get_stealth_params, lines 114-117: --min-wait and --max-wait, when given
\* (main passes 0 for an option that is not given)
effective_wait_params(c) ==
    LET p == stealth_wait_params(c.stealth_mode)
    IN  [min_wait |-> IF c.min_wait # 0 THEN c.min_wait ELSE p.min_wait,
         max_wait |-> IF c.max_wait # 0 THEN c.max_wait ELSE p.max_wait,
         variance |-> p.variance]

\* an argument the caller does not supply (argparse's None, or a keyword
\* argument of the constructor left out)
NoArg == -1

\* the defaults of the constructor's min_wait and max_wait
ConstructorMinWait == 300
ConstructorMaxWait == 1800

\* main, lines 665-666: "args.min_wait or 0"
main_argument(a) == IF a = NoArg \/ a = 0 THEN 0 ELSE a

\* __init__, lines 48-49: a keyword argument, or its default
constructor_argument(a, default) == IF a = NoArg THEN default ELSE a

\* what __init__ stores as self.min_wait / self.max_wait for a caller that
\* comes through main and for one that calls the constructor itself
stored_wait(entry, a, default) ==
    IF entry = "main"
    THEN constructor_argument(main_argument(a), default)
    ELSE constructor_argument(a, default)

\* the stealth modes a caller can name: argparse admits the four presets, the
\* constructor any string
EntryModes(entry) ==
    IF entry = "main" THEN StealthModes ELSE StealthModes \cup {"custom"}

\* the callers the schedulers are studied under
DelayConfigs ==
    UNION {{[prog |-> "stealth", stealth_mode |-> m,
             max_retries |-> StealthMaxAttempts, quality |-> "192",
             entry |-> en, min_arg |-> lo, max_arg |-> hi,
             min_wait |-> stored_wait(en, lo, ConstructorMinWait),
             max_wait |-> stored_wait(en, hi, ConstructorMaxWait),
             batch_size |-> 0] :
               m \in EntryModes(en), lo \in {NoArg, 0, 45, 900},
               hi \in {NoArg, 3600}} : en \in {"main", "constructor"}}
    \cup {[prog |-> "advanced", stealth_mode |-> "none", max_retries |-> 3,
           quality |-> "192", entry |-> "main", min_arg |-> lo, max_arg |-> hi,
           min_wait |-> lo, max_wait |-> hi, batch_size |-> b] :
             lo \in {45, 60}, hi \in {180, 300}, b \in {5, 10}}

\* the mutation of C19: the final clamp is gone, the scheduler returns the
\* computed value
Max_unclamped(a, b) == b

\* Python's max(a, b)
Max(a, b) == IF a >= b THEN a ELSE b

\* Python's round(n / d) for integers n >= 0 and d > 0: ties go to the even
\* neighbour
RoundHalfEven(n, d) ==
    LET q == n \div d
        r == n % d
    IN  IF 2 * r < d THEN q
        ELSE IF 2 * r > d THEN q + 1
        ELSE IF q % 2 = 0 THEN q ELSE q + 1

\* _human_like_delay, lines 200-204: the factor, in tenths
stealth_escalation(n) ==
    IF n > 5 THEN 15
    ELSE IF n > 10 THEN 20
    ELSE 10

\* _adaptive_delay, lines 124-128: the factor, in tenths
advanced_escalation(n) ==
    IF n > 10 THEN 15
    ELSE IF n > 20 THEN 20
    ELSE 10

\* the integer points a draw of random.uniform(a, b) is taken from
UniformPoints(a, b) == {a, (a + b) \div 2, b}

\* _human_like_delay: u is the base draw (s), vf the variance factor
\* (thousandths), coffee the 10% event and brk its length (s)
human_like_delay(p, n, u, vf, coffee, brk) ==
    LET m == stealth_escalation(n)
        d1 == u * vf * m
        d2 == d1 + (IF coffee THEN brk * 10000 ELSE 0)
        rounded == IF d2 < 300 * 10000
                   THEN RoundHalfEven(d2, 10 * 10000) * 10
                   ELSE RoundHalfEven(d2, 60 * 10000) * 60
    IN  [prog |-> "stealth", count |-> n, multiplier |-> m,
         raw |-> rounded * 10,
         value |-> Max(p.min_wait * 10, rounded * 10),
         min |-> p.min_wait * 10,
         max |-> p.max_wait * 10]

\* _adaptive_delay: base and jitter are the draws (s), brk the length of the
\* extended break (s)
adaptive_delay(c, n, base, jitter, brk) ==
    LET m == advanced_escalation(n)
        b1 == base * m
        b2 == IF n > 0 /\ n % c.batch_size = 0 THEN b1 + brk * 10 ELSE b1
    IN  [prog |-> "advanced", count |-> n, multiplier |-> m,
         raw |-> b2 + jitter * 10,
         value |-> Max(c.min_wait * 10, b2 + jitter * 10),
         min |-> c.min_wait * 10,
         max |-> c.max_wait * 10]

\* the constructor, before any delay was computed
DelayInit ==
    /\ cfg \in DelayConfigs
    /\ disk = EmptyStore
    /\ file = "absent"
    /\ today = 1
    /\ stop_file = FALSE
    /\ pc = "idle"
    /\ progress_data = EmptyStore
    /\ session_id = 0
    /\ downloads_today = 0
    /\ videos = <<>>
    /\ i = 0
    /\ attempt = 0
    /\ stats = ZeroStats
    /\ exit_code = -1
    /\ runs = 0
    /\ endKind = "none"
    /\ start = NoStart
    /\ fetchCount = 0
    /\ firstFetch = 0
    /\ fresh = FALSE
    /\ freshPerm = {}
    /\ anyFailed = FALSE
    /\ lastMarked = FALSE
    /\ faults = 0
    /\ delay = NoDelay
    /\ cookies = NoCookies

\* wait_time = self._human_like_delay(), with self.downloads_today = n (a wait
\* follows a download, so n is within the day's limit)
Human_like_delay ==
    /\ cfg.prog = "stealth"
    /\ LET p == effective_wait_params(cfg)
       IN  \E n \in DownloadCounts, u \in UniformPoints(p.min_wait, p.max_wait),
              vf \in UniformPoints(1000 - p.variance, 1000 + p.variance),
              coffee \in BOOLEAN, brk \in UniformPoints(900, 1800) :
             /\ n <= get_stealth_params(cfg.stealth_mode).daily_limit
             /\ delay' = human_like_delay(p, n, u, vf, coffee, brk)
    /\ UNCHANGED <<process_vars, cookies>>

\* delay = self._adaptive_delay(), with self.downloads_in_session = n
Adaptive_delay ==
    /\ cfg.prog = "advanced"
    /\ \E n \in DownloadCounts, base \in UniformPoints(cfg.min_wait, cfg.max_wait),
          jitter \in UniformPoints(-5, 5), brk \in UniformPoints(120, 300) :
         delay' = adaptive_delay(cfg, n, base, jitter, brk)
    /\ UNCHANGED <<process_vars, cookies>>

DelayNext ==
    \/ Human_like_delay
    \/ Adaptive_delay

DelaySpec == DelayInit /\ [][DelayNext]_vars

\* ------------------------------------------------------------------ claims
stealth == cfg.prog = "stealth"

\* the process has ended
Ended == pc = "idle" /\ runs > 0

\* C1: once the progress file holds an item as downloaded it holds it for good,
\* and ydl.download is never running for an item the file holds as downloaded,
\* in any run of any of the three downloaders
C1_DownloadedNeverFetchedAgain ==
    /\ [](pc = "fetch" => videos[i] \notin disk.downloaded_videos)
    /\ [][disk.downloaded_videos \subseteq disk'.downloaded_videos]_vars

\* a second run has just gone past an item an earlier run downloaded, and has
\* fetched nothing
C1_Witness ==
    /\ runs >= 2
    /\ pc = "wait"
    /\ fetchCount = 0
    /\ videos[i] \in disk.downloaded_videos

\* C2: no failure record counts more attempts than the retry budget
C2_AttemptsWithinMaxRetries ==
    \A v \in DOMAIN disk.failed_videos :
        disk.failed_videos[v].attempts <= cfg.max_retries

\* C3: after a run of the stealth or the advanced downloader that ran to its
\* end, an item that had no failure record and whose fetch raised an
\* unrecoverable error in the run has the record attempts = 1, permanent
C3_PermanentErrorOneAttempt ==
    (cfg.prog \in {"stealth", "advanced"} /\ Ended /\ endKind = "completed") =>
        \A v \in freshPerm :
            /\ v \in DOMAIN disk.failed_videos
            /\ disk.failed_videos[v].attempts = 1
            /\ disk.failed_videos[v].permanent_failure

\* C4: ydl.download is never running for an item whose record is marked
\* permanent failure
C4_PermanentNeverFetched ==
    (cfg.prog \in {"stealth", "advanced"} /\ pc = "fetch") =>
        ~PermanentFailure(disk, videos[i])

\* C5: while the progress file counts dailyLimit (or more) downloads for the
\* current date, the stealth downloader has no fetch running
C5_NoFetchAtDailyLimit ==
    (stealth /\ pc = "fetch") =>
        disk.daily_downloads[today] < stealth_params.daily_limit

\* the file counts dailyLimit downloads for today, one at least made by the
\* modelled runs, and a run started on that date was turned away
C5_Witness ==
    /\ stealth
    /\ Ended
    /\ endKind = "limit"
    /\ disk.daily_downloads[today] >= stealth_params.daily_limit
    /\ Cardinality(disk.downloaded_videos) >= 1

\* C6: a stealth run that starts with quota q and n > q eligible items and runs
\* to its end invokes the fetch for exactly q items, and none of the eligible
\* items after the first q got downloaded
C6_QuotaTruncation ==
    (stealth /\ Ended /\ endKind = "completed" /\ Len(start.eligible) > start.q) =>
        /\ fetchCount = start.q
        /\ \A k \in (start.q + 1)..Len(start.eligible) :
               start.eligible[k] \notin disk.downloaded_videos

\* C7: a stealth session that entered the loop and ended, however it ended, has
\* its Session record in the progress file
C7_SessionAlwaysRecorded ==
    (stealth /\ Ended /\ endKind \in {"completed", "quota", "stop", "interrupt"}) =>
        \E k \in DOMAIN disk.sessions : disk.sessions[k].id = session_id

\* C8: a stealth session ended by Ctrl+C or by the stop file exits with 130
C8_PausedExits130 ==
    (stealth /\ Ended /\ endKind \in {"interrupt", "stop"}) => exit_code = 130

\* C9: a session that ran to completion exits with 0 exactly when no fetch
\* failed in it and with 1 exactly when one did; an empty catalog or an
\* exhausted quota does not exit with 1
C9_ExitCodeCountsFetchFailures ==
    /\ (cfg.prog \in {"stealth", "advanced"} /\ Ended /\ endKind = "completed") =>
          /\ (exit_code = 0) <=> ~anyFailed
          /\ (exit_code = 1) <=> anyFailed
    /\ (cfg.prog \in {"stealth", "advanced"} /\ Ended
          /\ endKind \in {"novideos", "limit"}) => exit_code # 1

\* C10: a stealth run on the store an interrupted session left, with quota left
\* and an eligible item in the catalog, fetches the first eligible item first
C10_ResumesAtFirstEligible ==
    (stealth /\ Ended /\ endKind = "completed" /\ start.prev = "interrupt"
       /\ start.q > 0 /\ start.eligible # <<>>) =>
        firstFetch = start.eligible[1]

\* C11: an iteration of the loop (stealth, advanced) that starts with the .stop
\* file present ends the session as stopped, removes the file and invokes no
\* fetch; the one other ending is the operator's interrupt of the advanced
\* downloader's summary, after the loop was left and the session logged
C11_StopFileStopsSession ==
    [][(cfg.prog \in {"stealth", "advanced"} /\ pc = "loop" /\ stop_file
          /\ pc' # "loop") =>
       (/\ pc' = "idle"
        /\ \/ endKind' = "stop"
           \/ /\ endKind' = "interrupt"
              /\ cfg.prog = "advanced"
              /\ exit_code' = 130
              /\ Len(disk'.sessions) = Len(disk.sessions) + 2
        /\ ~stop_file'
        /\ fetchCount' = fetchCount)]_vars

\* a session that had fetched an item was stopped by the file, which is gone
C11_Witness ==
    /\ Ended
    /\ endKind = "stop"
    /\ ~stop_file
    /\ fetchCount >= 1

\* C12: ydl.download runs only for an item that is eligible by the stored
\* records: not downloaded, and either without a failure record or with one
\* that is not permanent and counts fewer attempts than the retry budget
C12_FetchOnlyEligible ==
    pc = "fetch" =>
        LET id == videos[i]
        IN  /\ id \notin disk.downloaded_videos
            /\ \/ id \notin DOMAIN disk.failed_videos
               \/ /\ ~disk.failed_videos[id].permanent_failure
                  /\ disk.failed_videos[id].attempts < cfg.max_retries

\* C13: no step removes a failure record from the progress file or lowers the
\* attempts it counts
C13_AttemptsNeverDecrease ==
    [][\A v \in DOMAIN disk.failed_videos :
          /\ v \in DOMAIN disk'.failed_videos
          /\ disk'.failed_videos[v].attempts >= disk.failed_videos[v].attempts]_vars

\* C14: a failure record marked permanent stays in the progress file, stays
\* marked permanent, and its item is never recorded as downloaded
C14_PermanentAbsorbing ==
    [][\A v \in DOMAIN disk.failed_videos :
          disk.failed_videos[v].permanent_failure =>
              /\ v \in DOMAIN disk'.failed_videos
              /\ disk'.failed_videos[v].permanent_failure
              /\ v \notin disk'.downloaded_videos]_vars

\* C15: whatever kills the process and whenever, the progress file's name holds
\* a complete document (the previous one or the new one), never an empty or
\* cut-off one
C15_CanonicalFileAlwaysComplete == file # "partial"

\* C16: a process started on a progress file that does not parse ends with an
\* error, leaving the file as it is; a process started on a file that parses
\* works from the file's records, not from the empty store
C16_CorruptLoadFails ==
    [][(runs' = runs + 1) =>
         /\ (file = "partial") =>
               /\ pc' = "idle"
               /\ endKind' = "corrupt"
               /\ exit_code' \notin {0, 130}
               /\ disk' = disk
               /\ file' = "partial"
         /\ (file = "complete" /\ pc' = "loop") =>
               /\ progress_data'.downloaded_videos = disk.downloaded_videos
               /\ DOMAIN progress_data'.failed_videos = DOMAIN disk.failed_videos
               /\ progress_data'.daily_downloads = disk.daily_downloads
               /\ progress_data'.sessions = disk.sessions]_vars

\* a process found a cut-off file that had held a download record and ended
\* with an error
C16_Witness ==
    /\ Ended
    /\ endKind = "corrupt"
    /\ exit_code = 1
    /\ file = "partial"
    /\ disk.downloaded_videos # {}

\* C17: while a process is in a fetch, in a sleep or in the countdown, the
\* progress file holds exactly self.progress_data
C17_SavedBeforeBlocking ==
    pc \in {"fetch", "sleep", "wait"} =>
        /\ file = "complete"
        /\ disk = progress_data

\* a process waits after it has recorded a download and a failure, both saved
C17_Witness ==
    /\ pc = "wait"
    /\ progress_data.downloaded_videos # {}
    /\ DOMAIN progress_data.failed_videos # {}
    /\ disk = progress_data

\* C18: whenever a failed fetch writes the item's failure record (stealth,
\* advanced), the record is marked permanent exactly when the text of the error
\* holds one of the markers unavailable, private, deleted, removed
C18_ClassificationByTextOnly ==
    [][(cfg.prog \in {"stealth", "advanced"} /\ faults' = faults + 1) =>
         LET id == videos[i]
             written == /\ id \in DOMAIN disk'.failed_videos
                        /\ \/ id \notin DOMAIN disk.failed_videos
                           \/ disk'.failed_videos[id] # disk.failed_videos[id]
         IN  written => (disk'.failed_videos[id].permanent_failure = lastMarked')]_vars

\* C19: whatever the draws and the download count, the delay a scheduler
\* returns is at least the effective minimum wait
C19_DelayAtLeastMinWait ==
    delay.prog # "none" => delay.value >= delay.min

\* the computed delay was below the minimum and the minimum was returned
C19_Witness ==
    /\ delay.prog # "none"
    /\ delay.raw < delay.min
    /\ delay.value = delay.min

\* C20: the factor a scheduler applies (in tenths) is 1 up to 10 downloads,
\* 1.5 from 11 to 20, and 2.0 above 20
C20_EscalationThresholds ==
    delay.prog # "none" =>
        delay.multiplier = (IF delay.count <= 10 THEN 10
                            ELSE IF delay.count <= 20 THEN 15
                            ELSE 20)

\* C21: the stealth downloader has no fetch running in a session whose clock
\* reading (the one the code takes, at the session's start) lies inside the
\* profile's night hours
C21_NoFetchInNightHours ==
    (stealth /\ pc = "fetch") => ~start.night

\* C22: a stealth session started outside the work hours but not inside the
\* night hours is not turned away for the time of day
C22_WorkHoursAdvisory ==
    (stealth /\ Ended /\ start.off_work /\ ~start.night) => endKind # "time"

\* C23: a session (stealth, advanced) that got no listing has invoked no
\* fetch, has left the download and failure records as they were, and exits
\* as a completed run (status 0)
C23_EmptyCatalogCompletes ==
    (cfg.prog \in {"stealth", "advanced"} /\ Ended /\ endKind = "novideos") =>
        /\ fetchCount = 0
        /\ exit_code = 0

\* C24: the day counters of the progress file count the successful fetches of
\* each date: a step that records a download raises the counter of the date
\* it is made on by one and leaves the other dates alone, and no other step
\* changes a counter
C24_DailyCounterCountsPerDate ==
    [][stealth =>
         IF disk'.downloaded_videos # disk.downloaded_videos
         THEN disk'.daily_downloads =
                  [disk.daily_downloads EXCEPT ![today] = @ + 1]
         ELSE disk'.daily_downloads = disk.daily_downloads]_vars

\* C25: in the stealth and the advanced downloader every fetch invocation but
\* the first of a session starts from the top of the loop, which is entered
\* again only when the pacing wait has returned, and no pacing wait is entered
\* after the last item
C25_WaitBetweenFetches ==
    [][cfg.prog \in {"stealth", "advanced"} =>
         /\ (pc' = "fetch" /\ (pc # "fetch" \/ attempt' # attempt)) => pc = "loop"
         /\ pc' = "wait" => i' < Len(videos')]_vars

\* C26: the Session record a stealth session writes counts fetches only: its
\* downloaded and failed together are the number of items fetched in the
\* session, so an item skipped without a fetch is in neither
C26_SkipsNotCounted ==
    (stealth /\ Ended /\ endKind \in {"completed", "quota", "stop"}) =>
        LET session == disk.sessions[Len(disk.sessions)]
        IN  session.downloaded + session.failed = fetchCount

\* C27: in the advanced and the basic downloader every processed item adds one
\* to exactly one of downloaded, skipped and failed: the three together are
\* the number of items processed so far, and never more than total
C27_CountersSumToProcessed ==
    (cfg.prog \in {"advanced", "basic"} /\ pc \in {"loop", "fetch", "wait"}) =>
        LET counted == stats.downloaded + stats.skipped + stats.failed
        IN  /\ counted = IF pc = "wait" THEN i ELSE i - 1
            /\ counted <= stats.total

\* C28: in the stealth and the advanced downloader a failed fetch never ends
\* the session: the step that handles the error either tries the same item
\* again (the next quality option) or leaves the failure in the progress file
\* and goes on, to the pause before the next item or, after the last item, to
\* the end of a completed session (or of one interrupted in its summary); the
\* pauses end in the next item unless an interrupt ends the process
C28_FailureDoesNotAbort ==
    [][cfg.prog \in {"stealth", "advanced"} =>
         /\ faults' # faults =>
              \/ pc' = "fetch" /\ i' = i /\ videos' = videos
              \/ /\ videos[i] \in DOMAIN disk'.failed_videos
                 /\ Attempts(disk', videos[i]) > Attempts(disk, videos[i])
                 /\ \/ pc' = "sleep" /\ i' = i /\ videos' = videos
                    \/ IF i < Len(videos)
                       THEN pc' = "wait" /\ i' = i /\ videos' = videos
                       ELSE pc' = "idle" /\ endKind' \in {"completed", "interrupt"}
         /\ (pc = "sleep" /\ pc' # "sleep") =>
              \/ pc' = "idle" /\ endKind' = "interrupt"
              \/ IF i < Len(videos)
                 THEN pc' = "wait" /\ i' = i
                 ELSE pc' = "idle" /\ endKind' = "completed"
         /\ (pc = "wait" /\ pc' # "wait") =>
              \/ pc' = "idle" /\ endKind' = "interrupt"
              \/ pc' = "loop" /\ i' = i + 1 /\ videos' = videos]_vars

\* a session is at its second item after the fetch of its first item failed
C28_Witness ==
    /\ cfg.prog \in {"stealth", "advanced"}
    /\ pc = "loop"
    /\ i = 2
    /\ anyFailed
    /\ fetchCount = 1
    /\ firstFetch = videos[1]
    /\ videos[1] \in DOMAIN disk.failed_videos

\* C29: in the stealth downloader nothing is written from the start of a fetch
\* to an interrupt that ends it: the step into the fetch, the steps during it
\* and the interrupt leave the progress file as it is, so after the interrupt
\* the item is neither downloaded nor out of retries
C29_InterruptedFetchLeavesNoTrace ==
    [][stealth =>
         /\ pc' = "fetch" => (disk' = disk /\ file' = file)
         /\ (pc = "fetch" /\ pc' = "idle" /\ endKind' = "interrupt") =>
              /\ disk' = disk
              /\ file' = file
              /\ ~already_downloaded(disk', videos[i])
              /\ Attempts(disk', videos[i]) < StealthMaxAttempts]_vars

\* a stealth process was interrupted during the only fetch it began
C29_Witness ==
    /\ stealth
    /\ Ended
    /\ endKind = "interrupt"
    /\ fetchCount = 1
    /\ ~anyFailed
    /\ firstFetch \notin disk.downloaded_videos
    /\ firstFetch \notin DOMAIN disk.failed_videos

\* C30: the delay the stealth scheduler returns (in tenths of a second) is a
\* whole multiple of 10 seconds when it is under 300 seconds and of 60
\* seconds when it is 300 seconds or more
C30_DelayRounded ==
    delay.prog = "stealth" =>
        IF delay.value < 3000
        THEN delay.value % 100 = 0
        ELSE delay.value % 600 = 0

\* C31: the minimum and maximum wait the stealth scheduler works with (in
\* tenths of a second) are the caller's value where the caller supplied one,
\* through main or through the constructor, and the preset's value where it
\* did not, with the preset of "high" for a mode that is not one of the four
C31_OverrideElsePreset ==
    delay.prog = "stealth" =>
        LET preset == stealth_wait_params(cfg.stealth_mode)
        IN  /\ delay.min = 10 * (IF cfg.min_arg # NoArg THEN cfg.min_arg
                                 ELSE preset.min_wait)
            /\ delay.max = 10 * (IF cfg.max_arg # NoArg THEN cfg.max_arg
                                 ELSE preset.max_wait)

\* C32: the sessions of the progress file only grow at the end: a step keeps
\* every record there is at its place with its content, and a step that ends
\* a run of the stealth or the advanced downloader (other than by a kill)
\* adds exactly one record
C32_SessionsAppendOnly ==
    [][cfg.prog \in {"stealth", "advanced"} =>
         /\ Len(disk'.sessions) >= Len(disk.sessions)
         /\ SubSeq(disk'.sessions, 1, Len(disk.sessions)) = disk.sessions
         /\ (pc' = "idle" /\ (pc # "idle" \/ runs' # runs) /\ endKind' # "killed") =>
              Len(disk'.sessions) = Len(disk.sessions) + 1]_vars

\* C33: in the basic downloader (one max_retries for all runs) retry_failed
\* gives one more attempt: a run of --retry-failed alone sets the attempts of
\* every record that had reached max_retries to max_retries - 1, which makes
\* the item eligible, and leaves the other failure records, the set of failure
\* records and the downloaded records as they are; a start of any kind changes
\* a failure record in no other way; a fetch starts only for an item below
\* max_retries, and a failed fetch adds one to its attempts, so the one fetch
\* the reset allows, when it fails, takes the item back to max_retries
C33_RetryGrantsOneAttempt ==
    [][cfg.prog = "basic" =>
         /\ (pc = "idle" /\ runs' # runs) =>
              /\ disk'.downloaded_videos = disk.downloaded_videos
              /\ DOMAIN disk'.failed_videos = DOMAIN disk.failed_videos
              /\ \A v \in DOMAIN disk.failed_videos :
                   IF disk.failed_videos[v].attempts >= cfg.max_retries
                   THEN \/ disk'.failed_videos[v] =
                             [disk.failed_videos[v] EXCEPT
                                 !.attempts = cfg.max_retries - 1]
                        \/ /\ endKind' # "retry"
                           /\ disk'.failed_videos[v] = disk.failed_videos[v]
                   ELSE disk'.failed_videos[v] = disk.failed_videos[v]
         /\ (pc = "loop" /\ pc' = "fetch") =>
              Attempts(disk, videos[i]) < cfg.max_retries
         /\ faults' # faults =>
              Attempts(disk', videos[i]) = Attempts(disk, videos[i]) + 1]_vars

\* with max_retries 1, an item that had a failure record was fetched again in
\* the second run, which only retry_failed allows, failed again and is back at
\* max_retries
C33_Witness ==
    /\ cfg.prog = "basic"
    /\ cfg.max_retries = 1
    /\ runs = 2
    /\ fetchCount = 1
    /\ ~fresh
    /\ faults = 2
    /\ firstFetch \in DOMAIN disk.failed_videos
    /\ Attempts(disk, firstFetch) = cfg.max_retries

\* ------------------------------------------- two instances, one progress file
\* Two stealth downloaders run at the same time with the same output
\* directory, each on a channel of its own: .stealth_progress.json is shared,
\* everything else (progress_data, downloads_today, the counters of
\* download_channel) is per instance, so in this specification pc,
\* progress_data, downloads_today, videos, i and stats are functions of the
\* instance. The code takes no lock: _load_progress reads the file once, in
\* the constructor, and every _save_progress writes the instance's whole
\* progress_data over the file. A counter of an instance that has ended
\* stands for the summary it printed.
Procs == {1, 2}

\* the channel of each instance: no video is in both
ChannelOf(p) == IF p = 1 THEN <<1, 2>> ELSE <<3>>

\* the variables a step of this specification leaves alone
conc_unused ==
    <<cfg, file, today, stop_file, session_id, attempt, exit_code, runs, endKind,
      start, fetchCount, firstFetch, fresh, freshPerm, anyFailed, lastMarked,
      faults, delay, cookies>>

ConcInit ==
    /\ cfg \in {c \in Configs : c.prog = "stealth"}
    /\ disk = EmptyStore
    /\ file = "complete"
    /\ today = 1
    /\ stop_file = FALSE
    /\ pc = [p \in Procs |-> "idle"]
    /\ progress_data = [p \in Procs |-> EmptyStore]
    /\ session_id = 0
    /\ downloads_today = [p \in Procs |-> 0]
    /\ videos = [p \in Procs |-> <<>>]
    /\ i = [p \in Procs |-> 0]
    /\ attempt = 0
    /\ stats = [p \in Procs |-> ZeroStats]
    /\ exit_code = -1
    /\ runs = 0
    /\ endKind = "none"
    /\ start = NoStart
    /\ fetchCount = 0
    /\ firstFetch = 0
    /\ fresh = FALSE
    /\ freshPerm = {}
    /\ anyFailed = FALSE
    /\ lastMarked = FALSE
    /\ faults = 0
    /\ delay = NoDelay
    /\ cookies = NoCookies

\* instance p goes on to nextpc holding pd, which it has just saved or not
Conc_proceed(p, pd, saved, st, dt, idx, nextpc) ==
    /\ progress_data' = [progress_data EXCEPT ![p] = pd]
    /\ disk' = IF saved THEN save_progress(pd) ELSE disk
    /\ stats' = [stats EXCEPT ![p] = st]
    /\ downloads_today' = [downloads_today EXCEPT ![p] = dt]
    /\ i' = [i EXCEPT ![p] = idx]
    /\ pc' = [pc EXCEPT ![p] = nextpc]

\* download_channel, lines 578-586: the Session record and the last save
Conc_finish(p, pd, st, dt) ==
    Conc_proceed(p, [pd EXCEPT !.sessions = Append(@, [id |-> p,
                                                       downloaded |-> st.downloaded,
                                                       failed |-> st.failed])],
                 TRUE, st, dt, i[p], "done")

\* download_channel, lines 554-567: the countdown, unless this was the last video
Conc_after_item(p, pd, st, dt) ==
    IF i[p] < Len(videos[p])
    THEN Conc_proceed(p, pd, TRUE, st, dt, i[p], "wait")
    ELSE Conc_finish(p, pd, st, dt)

\* the constructor (the one read of the file) and download_channel up to the loop
Conc_main(p) ==
    /\ pc[p] = "idle"
    /\ LET pd == load_progress
           dt == get_downloads_today(pd, today)
       IN  /\ videos' = [videos EXCEPT ![p] = ChannelOf(p)]
           /\ Conc_proceed(p, [pd EXCEPT !.channels = p], TRUE, ZeroStats, dt, 1, "loop")
    /\ UNCHANGED conc_unused

\* the top of one iteration and the checks of _download_single_video
Conc_loop(p) ==
    /\ pc[p] = "loop"
    /\ LET video_id == videos[p][i[p]]
           pd == progress_data[p]
           st == stats[p]
           dt == downloads_today[p]
       IN  IF ~check_daily_limit(dt, stealth_params)
           THEN Conc_finish(p, pd, st, dt)
           ELSE IF already_downloaded(pd, video_id)
           THEN Conc_after_item(p, pd, [st EXCEPT !.downloaded = @ + 1], dt)
           ELSE IF Attempts(pd, video_id) >= StealthMaxAttempts
           THEN Conc_after_item(p, pd, [st EXCEPT !.failed = @ + 1], dt)
           ELSE Conc_proceed(p, pd, FALSE, st, dt, i[p], "fetch")
    /\ UNCHANGED <<videos, conc_unused>>

\* ydl.download returned: lines 379-389
Conc_fetch_ok(p) ==
    /\ pc[p] = "fetch"
    /\ LET video_id == videos[p][i[p]]
           pd1 == [progress_data[p] EXCEPT !.downloaded_videos = @ \cup {video_id}]
           pd2 == update_daily_downloads(pd1, downloads_today[p], today)
       IN  Conc_after_item(p, pd2, [stats[p] EXCEPT !.downloaded = @ + 1],
                           downloads_today[p] + 1)
    /\ UNCHANGED <<videos, conc_unused>>

\* ydl.download raised an Exception: lines 391-415 (the sleep of lines 545-552
\* is part of the wait that follows)
Conc_fetch_fail(p) ==
    /\ pc[p] = "fetch"
    /\ \E e \in {ErrUnavailable, ErrHttp} :
         LET video_id == videos[p][i[p]]
             pd == stealth_record_failure(progress_data[p], video_id,
                                          stealth_is_permanent(e))
         IN  Conc_after_item(p, pd, [stats[p] EXCEPT !.failed = @ + 1],
                             downloads_today[p])
    /\ UNCHANGED <<videos, conc_unused>>

\* _wait_with_countdown returned: the next iteration
Conc_wait_done(p) ==
    /\ pc[p] = "wait"
    /\ Conc_proceed(p, progress_data[p], FALSE, stats[p], downloads_today[p],
                    i[p] + 1, "loop")
    /\ UNCHANGED <<videos, conc_unused>>

ConcNext ==
    \E p \in Procs :
        \/ Conc_main(p)
        \/ Conc_loop(p)
        \/ Conc_fetch_ok(p)
        \/ Conc_fetch_fail(p)
        \/ Conc_wait_done(p)

ConcurrentSpec == ConcInit /\ [][ConcNext]_vars

\* C34: when both instances have ended, the progress file holds a downloaded
\* record for every fetch that succeeded in either and a failure record for
\* every fetch that failed in either (the channels share no video, and the
\* file was empty at the start), and its counter of the day is the number of
\* fetches that succeeded in both
C34_NoLostUpdates ==
    (\A p \in Procs : pc[p] = "done") =>
        /\ Cardinality(disk.downloaded_videos) =
               stats[1].downloaded + stats[2].downloaded
        /\ Cardinality(DOMAIN disk.failed_videos) =
               stats[1].failed + stats[2].failed
        /\ disk.daily_downloads[today] =
               stats[1].downloaded + stats[2].downloaded

\* ------------------------------------------------------- one run every day
\* The stealth downloader in the mode medium (the listing is not shuffled) is
\* run once a day on a channel that has one video more than the day's limit;
\* every fetch succeeds, nobody touches the stop file, nobody interrupts, and
\* midnight passes between the runs.
DailyMode == "medium"

\* the channel: daily_limit + 1 videos, in the order yt-dlp lists them
DailyCatalog == [k \in 1..(get_stealth_params(DailyMode).daily_limit + 1) |-> k]

DailyInit ==
    /\ cfg = [prog |-> "stealth", stealth_mode |-> DailyMode,
              max_retries |-> StealthMaxAttempts, quality |-> "192"]
    /\ disk = EmptyStore
    /\ file = "complete"
    /\ today = 1
    /\ stop_file = FALSE
    /\ pc = "idle"
    /\ progress_data = EmptyStore
    /\ session_id = 0
    /\ downloads_today = 0
    /\ videos = <<>>
    /\ i = 0
    /\ attempt = 0
    /\ stats = ZeroStats
    /\ exit_code = -1
    /\ runs = 0
    /\ endKind = "none"
    /\ start = NoStart
    /\ fetchCount = 0
    /\ firstFetch = 0
    /\ fresh = FALSE
    /\ freshPerm = {}
    /\ anyFailed = FALSE
    /\ lastMarked = FALSE
    /\ faults = 0
    /\ delay = NoDelay
    /\ cookies = NoCookies

\* main with the channel's url and no --limit, on a day that has had no run:
\* the constructor and download_channel up to the loop
Daily_main ==
    /\ cfg.prog = "stealth"
    /\ pc = "idle"
    /\ runs < MaxRuns
    /\ runs < today
    /\ \E current_hour \in 0..23 :
         LET pd == load_progress
             dt == get_downloads_today(pd, today)
             listing == DailyCatalog
         IN  /\ StartRunAt(pd, listing, stealth_params.daily_limit - dt,
                        StealthMaxAttempts,
                        in_night_hours(stealth_params, current_hour),
                        outside_work_hours(stealth_params, current_hour))
             /\ IF ~check_daily_limit(dt, stealth_params)
                THEN Exit(pd, FALSE, 1, "limit")
                ELSE Proceed([pd EXCEPT !.channels = runs + 1], TRUE,
                             [stats |-> ZeroStats, i |-> 1, attempt |-> 0,
                              downloads_today |-> dt,
                              videos |-> stealth_truncate(listing, 0, dt, stealth_params)],
                             "loop")
    /\ UNCHANGED <<cfg, today, stop_file>>

\* midnight passes after the day's run has ended
Daily_tick ==
    /\ pc = "idle"
    /\ runs = today
    /\ Tick

DailyNext ==
    \/ Daily_main
    \/ Stealth_loop
    \/ Stealth_fetch_ok
    \/ Stealth_wait_done
    \/ Daily_tick

\* the process is not held up for ever, and the operator starts the day's run
DailySpec == DailyInit /\ [][DailyNext]_vars /\ WF_vars(DailyNext)

\* C35: run once a day with every fetch succeeding, the stealth downloader
\* makes progress while videos remain: whenever a run has ended before the
\* last day with a video of the channel not yet downloaded, a fetch follows
C35_EachRunMakesProgress ==
    (/\ pc = "idle"
     /\ runs > 0
     /\ today < MaxDate
     /\ Range(DailyCatalog) \ disk.downloaded_videos # {})
        ~> (pc = "fetch")

\* C36: no video of the progress file is held both as downloaded and as failed
C36_DownloadedFailedDisjoint ==
    disk.downloaded_videos \cap DOMAIN disk.failed_videos = {}

\* C37: what one item does to the progress file of the stealth downloader
\* (the Session record a run leaves at its end set aside): a fetch that
\* succeeds adds the item, and nothing else, to the downloaded records, and
\* adds one to the counter of the day; a fetch that fails adds one attempt to
\* the item's failure record and touches no other failure record, no
\* downloaded record and no counter; a step of the loop that starts no fetch
\* touches none of the three
C37_EffectsOfOneItem ==
    [][stealth =>
         LET video_id == videos[i]
             failed == faults' # faults
             gone == pc' = "idle" /\ endKind' \in {"interrupt", "killed"}
             succeeded == pc = "fetch" /\ pc' # "fetch" /\ ~failed /\ ~gone
         IN  /\ succeeded =>
                  /\ video_id \notin disk.downloaded_videos
                  /\ disk'.downloaded_videos = disk.downloaded_videos \cup {video_id}
                  /\ disk'.failed_videos = disk.failed_videos
                  /\ disk'.daily_downloads =
                         [disk.daily_downloads EXCEPT ![today] = @ + 1]
             /\ failed =>
                  /\ disk'.downloaded_videos = disk.downloaded_videos
                  /\ disk'.daily_downloads = disk.daily_downloads
                  /\ Attempts(disk', video_id) = Attempts(disk, video_id) + 1
                  /\ \A v \in DOMAIN disk.failed_videos :
                       v # video_id => /\ v \in DOMAIN disk'.failed_videos
                                       /\ disk'.failed_videos[v] = disk.failed_videos[v]
                  /\ DOMAIN disk'.failed_videos = DOMAIN disk.failed_videos \cup {video_id}
             /\ pc = "loop" =>
                  /\ disk'.downloaded_videos = disk.downloaded_videos
                  /\ disk'.failed_videos = disk.failed_videos
                  /\ disk'.daily_downloads = disk.daily_downloads]_vars

\* C38: an advanced session that an interrupt ended has exactly one Session
\* record of its id in the progress file
C38_OneSessionRecordPerId ==
    (cfg.prog = "advanced" /\ Ended /\ endKind = "interrupt") =>
        Cardinality({k \in DOMAIN disk.sessions :
                        disk.sessions[k].id = session_id}) = 1

\* --------------------------------------------------------- the cookie manager
\* CookieManager on its own: the cookie files of the cookie directory in the
\* order glob lists them, the usage statistics usage_stats.json holds, and
\* the clock, which may or may not have moved on between two readings.
\* calls is the history of what the calls returned (0: None); increasing
\* records whether every call so far read a time later than every use on
\* record.
MaxCookieFiles == 3
MaxCalls == 4
MaxStamp == 2

CookieFiles == 1..MaxCookieFiles

\* every list with the elements of the set S, each once
ListsOf(S) == {p \in [1..Cardinality(S) -> S] : Range(p) = S}

\* the key of the sort: usage_stats.get(str(f), {}).get('last_used', 0)
last_used(usage_stats, f) ==
    IF f \in DOMAIN usage_stats THEN usage_stats[f].last_used ELSE 0

\* the mutation of C39: the sort is reversed, the file used last comes first
sorted_first_reversed(cookie_files, usage_stats) ==
    LET k == CHOOSE k \in 1..Len(cookie_files) :
                 /\ \A j \in 1..Len(cookie_files) :
                      last_used(usage_stats, cookie_files[j])
                          <= last_used(usage_stats, cookie_files[k])
                 /\ \A j \in 1..(k - 1) :
                      last_used(usage_stats, cookie_files[j])
                          < last_used(usage_stats, cookie_files[k])
    IN  cookie_files[k]

\* sorted(self.cookie_files, key=...)[0]: the sort is stable, so among the
\* files with the least key the one that comes first in cookie_files
sorted_first(cookie_files, usage_stats) ==
    LET k == CHOOSE k \in 1..Len(cookie_files) :
                 /\ \A j \in 1..Len(cookie_files) :
                      last_used(usage_stats, cookie_files[j])
                          >= last_used(usage_stats, cookie_files[k])
                 /\ \A j \in 1..(k - 1) :
                      last_used(usage_stats, cookie_files[j])
                          > last_used(usage_stats, cookie_files[k])
    IN  cookie_files[k]

\* get_next_cookie_file on the manager cm, time.time() reading t
get_next_cookie_file(cm, t) ==
    IF cm.cookie_files = <<>>
    THEN [cm EXCEPT !.calls = Append(@, 0)]
    ELSE LET f == sorted_first(cm.cookie_files, cm.usage_stats)
             us == IF f \notin DOMAIN cm.usage_stats
                   THEN MapPut(cm.usage_stats, f, [count |-> 0, last_used |-> 0])
                   ELSE cm.usage_stats
         IN  [cm EXCEPT !.current_cookie_file = f,
                        !.usage_stats = [us EXCEPT ![f] = [count |-> @.count + 1,
                                                           last_used |-> t]],
                        !.now = t,
                        !.calls = Append(@, f),
                        !.increasing = @ /\ \A g \in DOMAIN cm.usage_stats :
                                                t > cm.usage_stats[g].last_used]

\* the constructor: _load_stats and _scan_cookie_files
CookieInit ==
    /\ cfg = [prog |-> "cookie_manager", stealth_mode |-> "none",
              max_retries |-> 0, quality |-> "192"]
    /\ disk = EmptyStore
    /\ file = "absent"
    /\ today = 1
    /\ stop_file = FALSE
    /\ pc = "idle"
    /\ progress_data = EmptyStore
    /\ session_id = 0
    /\ downloads_today = 0
    /\ videos = <<>>
    /\ i = 0
    /\ attempt = 0
    /\ stats = ZeroStats
    /\ exit_code = -1
    /\ runs = 0
    /\ endKind = "none"
    /\ start = NoStart
    /\ fetchCount = 0
    /\ firstFetch = 0
    /\ fresh = FALSE
    /\ freshPerm = {}
    /\ anyFailed = FALSE
    /\ lastMarked = FALSE
    /\ faults = 0
    /\ delay = NoDelay
    /\ \E present \in SUBSET CookieFiles :
         \E files \in ListsOf(present), used \in SUBSET present :
           \E usage_stats \in [used -> [count : {1}, last_used : 1..MaxStamp]] :
             cookies = [cookie_files |-> files, usage_stats |-> usage_stats,
                        current_cookie_file |-> 0, now |-> MaxStamp,
                        calls |-> <<>>, increasing |-> TRUE]

\* cookie_file = self.get_next_cookie_file(), the call of get_yt_dlp_opts
Get_next_cookie_file ==
    /\ Len(cookies.calls) < MaxCalls
    /\ \E t \in {cookies.now, cookies.now + 1} :
         cookies' = get_next_cookie_file(cookies, t)
    /\ UNCHANGED <<process_vars, delay>>

CookieNext == Get_next_cookie_file

CookieSpec == CookieInit /\ [][CookieNext]_vars

\* the count on record for a file
usage_count(usage_stats, f) ==
    IF f \in DOMAIN usage_stats THEN usage_stats[f].count ELSE 0

\* C39: a call of get_next_cookie_file on a manager with cookie files returns
\* one of them whose last_used on record is least, adds exactly one to its
\* count and leaves the statistics of the other files alone, and, as long as
\* every call read a time later than every use on record, every k returns in
\* a row (k the number of cookie files) are k different files; on a manager
\* with no cookie file it returns None and leaves the statistics as they are
C39_LeastRecentlyUsed ==
    [][LET files == cookies.cookie_files
           before == cookies.usage_stats
           after == cookies'.usage_stats
           returned == cookies'.calls[Len(cookies'.calls)]
           k == Len(files)
       IN  /\ cookies'.calls = Append(cookies.calls, returned)
           /\ IF files = <<>>
              THEN returned = 0 /\ after = before
              ELSE /\ returned \in Range(files)
                   /\ \A f \in Range(files) :
                        last_used(before, returned) <= last_used(before, f)
                   /\ usage_count(after, returned) = usage_count(before, returned) + 1
                   /\ \A f \in DOMAIN after \ {returned} :
                        f \in DOMAIN before /\ after[f] = before[f]
                   /\ cookies'.increasing =>
                      \A n \in 1..(Len(cookies'.calls) - k + 1) :
                        Cardinality({cookies'.calls[m] : m \in n..(n + k - 1)}) = k]_vars

\* three cookie files, and the calls so far have gone once round all three
C39_Witness ==
    /\ Len(cookies.cookie_files) = MaxCookieFiles
    /\ Len(cookies.calls) = MaxCalls
    /\ cookies.increasing
    /\ Range(cookies.calls) = Range(cookies.cookie_files)

====
